---- MODULE Spec2Model ----
(***************************************************************************)
(* Model registry and training orchestration of the digital-twin backend:  *)
(* app/ml/model_manager.py (alert family) and                              *)
(* app/nutrition/food_ml_model.py (food family).                           *)
(*                                                                         *)
(* Every call of a caller-facing operation is a process that walks through *)
(* the accesses its code makes to shared storage (the registry document,   *)
(* the artifact files, the relational store, the clock).  Spec has one     *)
(* caller make the calls one at a time, SpecConc interleaves the steps of  *)
(* one call of each of two callers, SpecSelect runs one alert bake-off     *)
(* over every assignment of candidate scores, SpecStored runs one call     *)
(* over a registry that already holds records, SpecCalc runs the          *)
(* functions that touch no storage over their arguments, and SpecMeals     *)
(* runs log_meal and get_daily_summary of                                  *)
(* app/nutrition/nutrition_service.py one at a time over the tables.       *)
(***************************************************************************)
EXTENDS Integers, Sequences, FiniteSets, TLC

(***************************************************************************)
(* Bounds of the model.                                                    *)
(***************************************************************************)
MaxRuns == 2
MaxClock == 1
MaxTwins == 10

(***************************************************************************)
(* Program constants.                                                      *)
(***************************************************************************)
MinTwins == 10
InitBestF1 == -1
InitBestAcc == 0

MODELS_DIR == "models"
FOOD_MODELS_DIR == "models_food"

Family == {"alert", "food"}
Procs == {"p1", "p2"}
Ops == {"retrain_alert", "retrain_food", "predict_alert", "predict_food"}

\* the lookups: each is _load_meta / _load_food_meta and a function of the
\* document read
AlertGetters == {"get_registered_models", "get_active_model_path", "get_active_model_info"}
FoodGetters == {"get_registered_food_models", "get_active_food_model_path"}
Getters == AlertGetters \cup FoodGetters

\* every operation works on the alert registry
MutOneRegistry(o) == "alert"

\* the registry an operation works on
OpFamily(o) ==
  IF o \in {"retrain_alert", "predict_alert"} \cup AlertGetters THEN "alert" ELSE "food"

Dir(f) == IF f = "alert" THEN MODELS_DIR ELSE FOOD_MODELS_DIR

\* models = {...} of retrain_alert_model, in insertion order
BaseRoster == <<"logreg", "rf", "gb", "knn", "extra_trees", "adaboost">>

Roster(xgboost) == IF xgboost THEN Append(BaseRoster, "xgboost") ELSE BaseRoster

\* macro-F1 and accuracy of a candidate, in percent
F1Levels == {0, 70, 85}
AccLevels == {60, 90}

\* f"alert_{key}_{timestamp}.joblib" / f"food_model_{timestamp}.joblib":
\* the name is decided by the family, the candidate key and the UTC second
ArtifactName(f, key, ts) ==
  [prefix |-> IF f = "alert" THEN "alert" ELSE "food_model", key |-> key, ts |-> ts]

ArtifactPath(f, key, ts) == [dir |-> Dir(f), name |-> ArtifactName(f, key, ts)]

NoPath == [dir |-> "", name |-> [prefix |-> "", key |-> "", ts |-> 0]]
NoRun == [t |-> 0, k |-> 0]

\* best_model_path = None, best_f1 = -1, best_acc = 0, best_key = None, best_run = None
NoBest ==
  [key |-> "", f1 |-> InitBestF1, acc |-> InitBestAcc, path |-> NoPath, run |-> NoRun]

(***************************************************************************)
(* The registry document.                                                  *)
(***************************************************************************)
EmptyDoc == <<>>

ActiveIdx(models) == {i \in 1..Len(models) : models[i].active}

MaxOf(S) == CHOOSE x \in S : \A y \in S : y <= x

\* active = [m for m in meta if m.get("active")]; active[-1]["path"] if active else None
ActivePath(models) ==
  IF ActiveIdx(models) = {} THEN NoPath ELSE models[MaxOf(ActiveIdx(models))].path

\* None
NoRec == [name |-> NoPath.name, path |-> NoPath, mlflow_run_id |-> NoRun, active |-> FALSE]

\* for m in reversed(meta): if m.get("active"): return m; return None
\* (n records are still to be scanned)
RECURSIVE ScanReversed(_, _)
ScanReversed(meta, n) ==
  IF n = 0 THEN NoRec
  ELSE IF meta[n].active THEN meta[n]
  ELSE ScanReversed(meta, n - 1)

get_registered_models(meta) == meta

\* active = [m for m in meta if m.get("active")]
ActiveRecords(meta) == SelectSeq(meta, LAMBDA m : m.active)

\* active[-1]["path"] if active else None
get_active_model_path(meta) ==
  IF ActiveRecords(meta) # <<>>
  THEN ActiveRecords(meta)[Len(ActiveRecords(meta))].path
  ELSE NoPath

\* the first active record in insertion order is returned
MutFirstActiveInfo(meta) ==
  IF ActiveIdx(meta) = {} THEN NoRec
  ELSE meta[CHOOSE i \in ActiveIdx(meta) : \A j \in ActiveIdx(meta) : i <= j]

get_active_model_info(meta) == ScanReversed(meta, Len(meta))

get_registered_food_models(meta) == meta

\* active = [m for m in models if m.get("active")]; None if not active,
\* else active[-1]["path"]
get_active_food_model_path(meta) ==
  IF ActiveRecords(meta) = <<>>
  THEN NoPath
  ELSE ActiveRecords(meta)[Len(ActiveRecords(meta))].path

\* what lookup o returns over the document meta
GetterValue(o, meta) ==
  CASE o = "get_registered_models" -> get_registered_models(meta)
    [] o = "get_active_model_path" -> get_active_model_path(meta)
    [] o = "get_active_model_info" -> get_active_model_info(meta)
    [] o = "get_registered_food_models" -> get_registered_food_models(meta)
    [] o = "get_active_food_model_path" -> get_active_food_model_path(meta)

\* the flags of the existing records are left as they are
MutClearNone(models) == models

\* the flags of the existing records are set instead of cleared
MutActivateAll(models) == [i \in 1..Len(models) |-> [models[i] EXCEPT !.active = TRUE]]

\* for m in meta["models"]: m["active"] = False
ClearActive(models) == [i \in 1..Len(models) |-> [models[i] EXCEPT !.active = FALSE]]

\* the new record is appended without clearing the flags
MutPromoteNoClear(models, rec) == Append(models, rec)

\* the registry is overwritten with the new record alone
MutPromoteReplace(models, rec) == <<rec>>

\* clear every flag, append the new record (which carries active = True)
Promote(models, rec) == Append(ClearActive(models), rec)

(***************************************************************************)
(* The alert bake-off: the loop over models.items().                       *)
(***************************************************************************)
\* a tie replaces the best candidate so far
MutBetterOrEqual(f1, best_f1) == f1 >= best_f1

\* if f1 > best_f1
Better(f1, best_f1) == f1 > best_f1

\* best_acc follows the highest accuracy seen, apart from the selection
MutEvaluateMaxAcc(best, roster, ev, i, t, ts) ==
  LET acc == IF ev[i].acc > best.acc THEN ev[i].acc ELSE best.acc
  IN IF Better(ev[i].f1, best.f1)
     THEN [key |-> roster[i], f1 |-> ev[i].f1, acc |-> acc,
           path |-> ArtifactPath("alert", roster[i], ts), run |-> [t |-> t, k |-> i]]
     ELSE [best EXCEPT !.acc = acc]

\* one iteration of the loop for candidate i, started in run t at second ts
Evaluate(best, roster, ev, i, t, ts) ==
  IF Better(ev[i].f1, best.f1)
  THEN [key |-> roster[i], f1 |-> ev[i].f1, acc |-> ev[i].acc,
        path |-> ArtifactPath("alert", roster[i], ts), run |-> [t |-> t, k |-> i]]
  ELSE best

RECURSIVE BestAfter(_, _, _, _, _)
BestAfter(n, roster, ev, t, ts) ==
  IF n = 0 THEN NoBest
  ELSE Evaluate(BestAfter(n - 1, roster, ev, t, ts), roster, ev, n, t, ts)

SelectBest(roster, ev, t, ts) == BestAfter(Len(roster), roster, ev, t, ts)

\* the record retrain_alert_model appends
AlertRecord(best, created) ==
  [name |-> best.path.name, path |-> best.path, model_type |-> best.key,
   accuracy |-> best.acc, f1_macro |-> best.f1, mlflow_run_id |-> best.run,
   created_at |-> created, active |-> TRUE]

\* the record retrain_food_model appends (mae is fixed by random_state = 42)
FoodRecord(path, run, created) ==
  [name |-> path.name, path |-> path, mae |-> "mae", mlflow_run_id |-> run,
   created_at |-> created, active |-> TRUE]

\* the summary retrain_alert_model returns, built from the loop's best_* locals
AlertSummary(best) ==
  [status |-> "trained_on_real_db", best_model |-> best.key, accuracy |-> best.acc,
   f1_macro |-> best.f1, model_path |-> best.path, mlflow_run_id |-> best.run]

\* the summary retrain_food_model returns
FoodSummary(path, run) ==
  [status |-> "trained_food_model", mae |-> "mae", model_path |-> path,
   mlflow_run_id |-> run]

\* the gate refuses exactly 10 twins as well
MutGateOffByOne(n) == n > MinTwins

\* if len(twins) < 10: raise ValueError
PassesGate(n) == ~(n < MinTwins)

(***************************************************************************)
(* State.                                                                  *)
(*   file[f]    the registry document of family f on durable storage       *)
(*   artifacts  the artifact files that exist                              *)
(*   now        the UTC second of the clock                                *)
(*   nTwins     the number of Twin rows of the relational store            *)
(*   xgb        XGBOOST_AVAILABLE                                          *)
(*   evals      the scores the candidates reach on the stored data         *)
(*   runs       the number of training runs started                        *)
(*   pc, op, loc  per call: its position, its operation, its locals        *)
(*   snap, res  per call: storage when it started, what it returned (kept  *)
(*              until storage changes after the return)                    *)
(*   written    the runs whose retrain returned successfully               *)
(*   calc       one call of a function that touches no storage: the        *)
(*              function, its argument, and its result once it has run     *)
(***************************************************************************)
VARIABLES file, artifacts, now, nTwins, xgb, evals, runs, pc, op, loc, snap, res, written,
          calc, today, twin_rows, meal_logs, daily_calorie_summary, reply

vars ==
  <<file, artifacts, now, nTwins, xgb, evals, runs, pc, op, loc, snap, res, written, calc,
    today, twin_rows, meal_logs, daily_calorie_summary, reply>>

\* the shared storage and the calls that work on it
store == <<file, artifacts, now, nTwins, xgb, evals, runs, pc, op, loc, snap, res, written>>

\* the database tables of the nutrition service, the calendar day and the
\* outcome of the last call of the service
tables == <<today, twin_rows, meal_logs, daily_calorie_summary, reply>>

\* the ids a twin row can have
TwinIds == {1, 2}

\* no call of the nutrition service yet
NoReply == [fn |-> "none", twin_id |-> 0, date |-> 0, outcome |-> "none", daily |-> 0]

\* a database without rows
NoTables ==
  /\ today = 0
  /\ twin_rows = [id \in TwinIds |-> <<>>]
  /\ meal_logs = <<>>
  /\ daily_calorie_summary = <<>>
  /\ reply = NoReply

\* no call of a storage-free function
NoCalc == [fn |-> "none", arg |-> <<>>, done |-> FALSE, out |-> <<>>]

Models(f) == file[f].models

\* the states of a registry file: not created, emptied by open(path, "w"),
\* a JSON document, or bytes that are no JSON document
Absent == [st |-> "absent", models |-> EmptyDoc, size |-> 0]
Truncated == [st |-> "trunc", models |-> EmptyDoc, size |-> 0]
Doc(models) == [st |-> "doc", models |-> models, size |-> Len(models)]
Garbled(size) == [st |-> "garbled", models |-> EmptyDoc, size |-> size]

\* json.dump and close on a handle opened with "w": the bytes go to offset 0
\* of the file as it is now.  An empty file takes the document.  A file another
\* handle has filled since this one was opened keeps its tail behind a shorter
\* document (more records make a longer document; of two different documents
\* with as many records either may be the longer one).
WriteOver(cur, out) ==
  IF cur.st \in {"absent", "trunc"} \/ cur = Doc(out) \/ Len(out) > cur.size
  THEN {Doc(out)}
  ELSE IF Len(out) < cur.size
  THEN {Garbled(cur.size)}
  ELSE {Doc(out), Garbled(cur.size)}

\* no value returned (a retrain or a prediction returns no registry content)
NoValue == "no_value"

LocInit ==
  [ret |-> "idle", out |-> EmptyDoc, rec |-> NoRec, path |-> NoPath,
   boot |-> FALSE, trained |-> 0, value |-> NoValue]

NoRes ==
  [op |-> "none", outcome |-> "none", trained |-> 0, rec |-> NoRec, value |-> NoValue]

NoSnap == [models |-> [f \in Family |-> EmptyDoc], artifacts |-> {}, twins |-> 0]

\* the candidates one training run of family f fits
Candidates(f) == IF f = "alert" THEN Roster(xgb) ELSE <<"">>

\* whether call p is inside retrain_alert_model / retrain_food_model
Retraining(p) == op[p] \in {"retrain_alert", "retrain_food"} \/ loc[p].boot

\* two score assignments for the runs of Spec and SpecConc: the tie of the
\* second and third candidate above the rest, and a tie of all candidates
SampleEvals ==
  { [i \in 1..Len(Roster(TRUE)) |->
       IF i \in {2, 3} THEN [f1 |-> 85, acc |-> 60] ELSE [f1 |-> 70, acc |-> 90]],
    [i \in 1..Len(Roster(TRUE)) |-> [f1 |-> 70, acc |-> 60]] }

\* every assignment of macro-F1 levels to the candidates, the accuracy of a
\* candidate being any function of its macro-F1 level
AllEvals ==
  { [i \in 1..Len(Roster(TRUE)) |-> [f1 |-> g[i], acc |-> a[g[i]]]] :
      g \in [1..Len(Roster(TRUE)) -> F1Levels], a \in [F1Levels -> AccLevels] }

InitStore ==
  /\ file = [f \in Family |-> Absent]
  /\ artifacts = {}
  /\ now = 0
  /\ runs = 0
  /\ xgb \in BOOLEAN
  /\ pc = [p \in Procs |-> "idle"]
  /\ op = [p \in Procs |-> "none"]
  /\ loc = [p \in Procs |-> LocInit]
  /\ snap = [p \in Procs |-> NoSnap]
  /\ res = [p \in Procs |-> NoRes]
  /\ written = {}

Init ==
  /\ InitStore
  /\ NoTables
  /\ nTwins = MinTwins - 1
  /\ evals \in SampleEvals
  /\ calc = NoCalc

(***************************************************************************)
(* Steps of a call.                                                        *)
(***************************************************************************)
\* the call returns or raises: outcome "ok" is a normal return
Finish(p, outcome, l) ==
  /\ pc' = [pc EXCEPT ![p] = "idle"]
  /\ res' = [res EXCEPT ![p] = [op |-> op[p], outcome |-> outcome,
                                trained |-> l.trained, rec |-> l.rec,
                                value |-> l.value]]
  /\ loc' = [loc EXCEPT ![p] = LocInit]

\* a caller invokes operation o; each operation starts with _ensure_dirs,
\* directly (retrain) or inside _load_meta (predict)
Start(p, o) ==
  /\ pc[p] = "idle"
  /\ pc' = [pc EXCEPT ![p] = "ensure"]
  /\ op' = [op EXCEPT ![p] = o]
  /\ loc' = [loc EXCEPT ![p] =
       [LocInit EXCEPT !.ret = CASE o = "retrain_alert" -> "gate"
                               [] o = "retrain_food" -> "train"
                               [] OTHER -> "read"]]
  /\ snap' = [snap EXCEPT ![p] =
       [models |-> [f \in Family |-> Models(f)], artifacts |-> artifacts,
        twins |-> nTwins]]
  /\ res' = [res EXCEPT ![p] = NoRes]
  /\ UNCHANGED <<calc, tables, file, artifacts, now, nTwins, xgb, evals, runs, written>>

\* _ensure_dirs: if not os.path.exists(META_PATH)
Ensure(p) ==
  /\ pc[p] = "ensure"
  /\ IF file[OpFamily(op[p])].st = "absent"
     THEN /\ pc' = [pc EXCEPT ![p] = "open_w"]
          /\ loc' = [loc EXCEPT ![p].out = EmptyDoc]
     ELSE /\ pc' = [pc EXCEPT ![p] = loc[p].ret]
          /\ UNCHANGED loc
  /\ UNCHANGED <<calc, tables, file, artifacts, now, nTwins, xgb, evals, runs, op, snap, res, written>>

\* open(META_PATH, "w"): the file exists and is empty
OpenW(p) ==
  /\ pc[p] = "open_w"
  /\ file' = [file EXCEPT ![OpFamily(op[p])] = Truncated]
  /\ pc' = [pc EXCEPT ![p] = "dump"]
  /\ UNCHANGED <<calc, tables, artifacts, now, nTwins, xgb, evals, runs, op, loc, snap, res, written>>

\* json.dump(...) and the close of the file; retrain_alert_model returns after
\* its _save_meta
Dump(p) ==
  /\ pc[p] = "dump"
  /\ \E written_file \in WriteOver(file[OpFamily(op[p])], loc[p].out) :
       file' = [file EXCEPT ![OpFamily(op[p])] = written_file]
  /\ IF loc[p].ret = "done"
     THEN /\ Finish(p, "ok", loc[p])
          /\ written' = written \cup {[family |-> OpFamily(op[p]),
                                         run |-> loc[p].rec.mlflow_run_id]}
     ELSE /\ pc' = [pc EXCEPT ![p] = loc[p].ret]
          /\ UNCHANGED <<loc, res, written>>
  /\ UNCHANGED <<calc, tables, artifacts, now, nTwins, xgb, evals, runs, op, snap>>

\* _load_training_data_from_db
Gate(p) ==
  /\ pc[p] = "gate"
  /\ IF PassesGate(nTwins)
     THEN /\ pc' = [pc EXCEPT ![p] = "train"]
          /\ UNCHANGED <<loc, res>>
     ELSE Finish(p, "data_insufficient", loc[p])
  /\ UNCHANGED <<calc, tables, file, artifacts, now, nTwins, xgb, evals, runs, op, snap, written>>

\* the new record of a training run t of family f that ends in second ts
NewRecord(f, t, ts) ==
  IF f = "alert"
  THEN AlertRecord(SelectBest(Roster(xgb), evals, t, ts), ts)
  ELSE FoodRecord(ArtifactPath("food", "", ts), [t |-> t, k |-> 1], ts)

\* the summary a training run t of family f that ends in second ts returns
NewSummary(f, t, ts) ==
  IF f = "alert"
  THEN AlertSummary(SelectBest(Roster(xgb), evals, t, ts))
  ELSE FoodSummary(ArtifactPath("food", "", ts), [t |-> t, k |-> 1])

\* split, fit, score, dump of every candidate; a failure raises out of the
\* retrain before the first candidate (split, fit: k = 0, "train_error") or
\* after the dump of the last one (mlflow.sklearn.log_model, a call to the
\* experiment tracker: k = all, "log_error")
Train(p) ==
  /\ pc[p] = "train"
  /\ runs < MaxRuns
  /\ runs' = runs + 1
  /\ LET f == OpFamily(op[p])
         cands == Candidates(f)
     IN \E k \in {0, Len(cands)}, fails \in BOOLEAN :
          /\ ~fails => k = Len(cands)
          /\ artifacts' = artifacts \cup {ArtifactPath(f, cands[i], now) : i \in 1..k}
          /\ LET l == [loc[p] EXCEPT !.trained = @ + 1]
             IN IF fails
                THEN Finish(p, IF k = 0 THEN "train_error" ELSE "log_error", l)
                ELSE /\ pc' = [pc EXCEPT ![p] = "ensure"]
                     /\ loc' = [loc EXCEPT ![p] =
                          [l EXCEPT !.ret = "read",
                                    !.rec = NewRecord(f, runs + 1, now),
                                    !.path = NewRecord(f, runs + 1, now).path,
                                    !.value = IF loc[p].boot THEN NoValue
                                              ELSE NewSummary(f, runs + 1, now)]]
                     /\ UNCHANGED res
  /\ UNCHANGED <<calc, tables, file, now, nTwins, xgb, evals, op, snap, written>>

\* the alert lookup bootstraps like the food lookup
MutAutoTrainsAll(f) == TRUE

\* only the food family trains on a lookup that finds no usable model
AutoTrains(f) == f = "food"

\* the existence test never finds the file
MutPathExistsNever(path, files) == FALSE

\* os.path.exists(path)
PathExists(path, files) == path \in files

\* a missing file loads without an error
MutArtifactLoadsAlways(path, files) == TRUE

\* joblib.load(path) returns the model; it raises when the file is missing
ArtifactLoads(path, files) == path \in files

\* the bootstrap of _load_active_food_model: info = retrain_food_model()
Bootstrap(p) ==
  /\ pc' = [pc EXCEPT ![p] = "ensure"]
  /\ loc' = [loc EXCEPT ![p].ret = "train", ![p].boot = TRUE]
  /\ UNCHANGED res

\* json.load of the registry document, and what the caller does with it
Read(p) ==
  /\ pc[p] = "read"
  /\ LET f == OpFamily(op[p])
         meta == file[f].models
     IN IF file[f].st # "doc"
        THEN Finish(p, "registry_unreadable", loc[p])
        ELSE IF Retraining(p)
        THEN /\ pc' = [pc EXCEPT ![p] = "open_w"]
             /\ loc' = [loc EXCEPT
                  ![p].rec = [loc[p].rec EXCEPT !.created_at = now],
                  ![p].out = Promote(meta, [loc[p].rec EXCEPT !.created_at = now]),
                  ![p].ret = IF f = "alert" THEN "done" ELSE "exit"]
             /\ UNCHANGED res
        ELSE IF op[p] \in Getters
        THEN Finish(p, "ok", [loc[p] EXCEPT !.value = GetterValue(op[p], meta)])
        ELSE IF ActivePath(meta) = NoPath
        THEN IF AutoTrains(f)
             THEN Bootstrap(p)
             ELSE Finish(p, "no_active_model", loc[p])
        ELSE /\ pc' = [pc EXCEPT ![p] = IF f = "alert" THEN "load" ELSE "exists"]
             /\ loc' = [loc EXCEPT ![p].path = ActivePath(meta)]
             /\ UNCHANGED res
  /\ UNCHANGED <<calc, tables, file, artifacts, now, nTwins, xgb, evals, runs, op, snap, written>>

\* _load_active_food_model: not os.path.exists(path)
Exists(p) ==
  /\ pc[p] = "exists"
  /\ IF PathExists(loc[p].path, artifacts)
     THEN /\ pc' = [pc EXCEPT ![p] = "load"]
          /\ UNCHANGED <<loc, res>>
     ELSE Bootstrap(p)
  /\ UNCHANGED <<calc, tables, file, artifacts, now, nTwins, xgb, evals, runs, op, snap, written>>

\* retrain_food_model leaves its with mlflow.start_run block: the tracker ends
\* the run, and an error there replaces the return value
Exit(p) ==
  /\ pc[p] = "exit"
  /\ \E fails \in BOOLEAN :
       IF fails
       THEN /\ Finish(p, "tracker_error", loc[p])
            /\ UNCHANGED written
       ELSE /\ written' = written \cup {[family |-> OpFamily(op[p]),
                                           run |-> loc[p].rec.mlflow_run_id]}
            /\ IF loc[p].boot
               THEN /\ pc' = [pc EXCEPT ![p] = "load"]
                    /\ UNCHANGED <<loc, res>>
               ELSE Finish(p, "ok", loc[p])
  /\ UNCHANGED <<calc, tables, file, artifacts, now, nTwins, xgb, evals, runs, op, snap>>

\* joblib.load(path) and the prediction with the loaded model
Load(p) ==
  /\ pc[p] = "load"
  /\ IF ArtifactLoads(loc[p].path, artifacts)
     THEN Finish(p, "ok", loc[p])
     ELSE Finish(p, "artifact_missing", loc[p])
  /\ UNCHANGED <<calc, tables, file, artifacts, now, nTwins, xgb, evals, runs, op, snap, written>>

(***************************************************************************)
(* The environment.                                                        *)
(***************************************************************************)
\* what a returned call found and returned is kept until storage changes
Forget ==
  /\ res' = [p \in Procs |-> IF pc[p] = "idle" THEN NoRes ELSE res[p]]
  /\ snap' = [p \in Procs |-> IF pc[p] = "idle" THEN NoSnap ELSE snap[p]]

\* the UTC clock reaches the next second
Tick ==
  /\ now < MaxClock
  /\ now' = now + 1
  /\ Forget
  /\ UNCHANGED <<calc, tables, file, artifacts, nTwins, xgb, evals, runs, pc, op, loc, written>>

\* another part of the backend stores a twin
AddTwin ==
  /\ nTwins < MaxTwins
  /\ nTwins' = nTwins + 1
  /\ Forget
  /\ UNCHANGED <<calc, tables, file, artifacts, now, xgb, evals, runs, pc, op, loc, written>>

\* the relational store loses a twin (the store is not owned by this code)
RemoveTwin ==
  /\ nTwins >= MinTwins
  /\ nTwins' = nTwins - 1
  /\ Forget
  /\ UNCHANGED <<calc, tables, file, artifacts, now, xgb, evals, runs, pc, op, loc, written>>

\* storage loses the artifact file of an active model (no operation reads the
\* file of another record)
DeleteArtifact ==
  /\ \E f \in Family : \E i \in ActiveIdx(Models(f)) :
       /\ Models(f)[i].path \in artifacts
       /\ artifacts' = artifacts \ {Models(f)[i].path}
  /\ Forget
  /\ UNCHANGED <<calc, tables, file, now, nTwins, xgb, evals, runs, pc, op, loc, written>>

Idle == \A p \in Procs : pc[p] = "idle"

\* calls run one at a time: one caller makes them back to back
Solo(p) == p = "p1"

\* calls run one at a time, and storage changes between calls only
Next ==
  \/ \E p \in Procs : \E o \in Ops : Solo(p) /\ Start(p, o)
  \/ \E p \in Procs : Solo(p) /\ Ensure(p)
  \/ \E p \in Procs : Solo(p) /\ OpenW(p)
  \/ \E p \in Procs : Solo(p) /\ Dump(p)
  \/ \E p \in Procs : Solo(p) /\ Gate(p)
  \/ \E p \in Procs : Solo(p) /\ Train(p)
  \/ \E p \in Procs : Solo(p) /\ Read(p)
  \/ \E p \in Procs : Solo(p) /\ Exists(p)
  \/ \E p \in Procs : Solo(p) /\ Exit(p)
  \/ \E p \in Procs : Solo(p) /\ Load(p)
  \/ Idle /\ Tick
  \/ Idle /\ AddTwin
  \/ Idle /\ RemoveTwin
  \/ Idle /\ DeleteArtifact

Spec == Init /\ [][Next]_vars

\* two callers over a relational store that holds enough twins
InitConc ==
  /\ InitStore
  /\ NoTables
  /\ nTwins = MinTwins
  /\ evals \in SampleEvals
  /\ calc = NoCalc

\* two callers make one call each, and the calls interleave at every access
\* to shared storage
NextConc ==
  \/ \E p \in Procs : \E o \in Ops \cup Getters : op[p] = "none" /\ Start(p, o)
  \/ \E p \in Procs : Ensure(p)
  \/ \E p \in Procs : OpenW(p)
  \/ \E p \in Procs : Dump(p)
  \/ \E p \in Procs : Gate(p)
  \/ \E p \in Procs : Train(p)
  \/ \E p \in Procs : Read(p)
  \/ \E p \in Procs : Exists(p)
  \/ \E p \in Procs : Exit(p)
  \/ \E p \in Procs : Load(p)
  \/ Tick
  \/ DeleteArtifact

SpecConc == InitConc /\ [][NextConc]_vars

\* one caller runs one alert bake-off, over every assignment of scores
InitSelect ==
  /\ InitStore
  /\ NoTables
  /\ nTwins = MinTwins
  /\ evals \in AllEvals
  /\ ~xgb => evals[Len(Roster(TRUE))] = [f1 |-> 0, acc |-> 60]
  /\ calc = NoCalc

NextSelect ==
  \/ runs = 0 /\ Start("p1", "retrain_alert")
  \/ Ensure("p1")
  \/ OpenW("p1")
  \/ Dump("p1")
  \/ Gate("p1")
  \/ Train("p1")
  \/ Read("p1")

SpecSelect == InitSelect /\ [][NextSelect]_vars

(***************************************************************************)
(* Functions that touch no storage.  Text is a string, and a character is  *)
(* a string of length one.  Amounts are in tenths of a unit.               *)
(***************************************************************************)
MaxItems == 2

Char(s, i) == SubSeq(s, i, i)

UpperCase == "ABCDEFGHIJKLMNOPQRSTUVWXYZ"
LowerCase == "abcdefghijklmnopqrstuvwxyz"

LowerChar(c) ==
  IF \E i \in 1..Len(UpperCase) : Char(UpperCase, i) = c
  THEN Char(LowerCase, CHOOSE i \in 1..Len(UpperCase) : Char(UpperCase, i) = c)
  ELSE c

\* str.strip(): leading and trailing blanks are removed
RECURSIVE Strip(_)
Strip(s) ==
  IF s = "" THEN s
  ELSE IF Char(s, 1) = " " THEN Strip(SubSeq(s, 2, Len(s)))
  ELSE IF Char(s, Len(s)) = " " THEN Strip(SubSeq(s, 1, Len(s) - 1))
  ELSE s

\* str.lower()
RECURSIVE Lower(_)
Lower(s) ==
  IF s = "" THEN s ELSE LowerChar(Char(s, 1)) \o Lower(SubSeq(s, 2, Len(s)))

\* str.replace(" ", "_")
RECURSIVE ReplaceBlanks(_)
ReplaceBlanks(s) ==
  IF s = "" THEN s
  ELSE (IF Char(s, 1) = " " THEN "_" ELSE Char(s, 1)) \o ReplaceBlanks(SubSeq(s, 2, Len(s)))

\* item.get("name", "").strip().lower().replace(" ", "_")
Normalize(name) == ReplaceBlanks(Lower(Strip(name)))

\* FOOD_DB, in insertion order
FOOD_DB ==
  << [name |-> "idli",          cal |-> 700,  p |-> 20, c |-> 120, f |-> 5],
     [name |-> "dosa",          cal |-> 1300, p |-> 30, c |-> 200, f |-> 40],
     [name |-> "poha",          cal |-> 1800, p |-> 40, c |-> 300, f |-> 50],
     [name |-> "upma",          cal |-> 2000, p |-> 50, c |-> 280, f |-> 70],
     [name |-> "aloo_paratha",  cal |-> 2200, p |-> 50, c |-> 300, f |-> 90],
     [name |-> "chai",          cal |-> 800,  p |-> 20, c |-> 100, f |-> 30],
     [name |-> "coffee",        cal |-> 600,  p |-> 20, c |-> 60,  f |-> 20],
     [name |-> "bread_slice",   cal |-> 750,  p |-> 25, c |-> 140, f |-> 10],
     [name |-> "omelette",      cal |-> 1200, p |-> 80, c |-> 10,  f |-> 90],
     [name |-> "curd_bowl",     cal |-> 900,  p |-> 50, c |-> 40,  f |-> 50],
     [name |-> "paratha_plain", cal |-> 1900, p |-> 40, c |-> 280, f |-> 70],
     [name |-> "banana",        cal |-> 1000, p |-> 12, c |-> 250, f |-> 3] >>

\* raw_name not in FOOD_INDEX
NotInIndex == -1

\* an unknown name gets the index of the first food
MutIndexOrFirst(raw_name) ==
  IF \E i \in 1..Len(FOOD_DB) : FOOD_DB[i].name = raw_name
  THEN (CHOOSE i \in 1..Len(FOOD_DB) : FOOD_DB[i].name = raw_name) - 1
  ELSE 0

\* FOOD_INDEX = {name: idx for idx, name in enumerate(FOOD_DB.keys())}
FOOD_INDEX(raw_name) ==
  IF \E i \in 1..Len(FOOD_DB) : FOOD_DB[i].name = raw_name
  THEN (CHOOSE i \in 1..Len(FOOD_DB) : FOOD_DB[i].name = raw_name) - 1
  ELSE NotInIndex

\* model.predict([[idx, qty]])[0] of the food regressor, a fixed function of
\* the index and the quantity fitted to base * qty
Regress(idx, qty) ==
  [cal |-> FOOD_DB[idx + 1].cal * qty, p |-> FOOD_DB[idx + 1].p * qty,
   c |-> FOOD_DB[idx + 1].c * qty, f |-> FOOD_DB[idx + 1].f * qty]

\* total_cal = total_p = total_c = total_f = 0.0
ZeroTotals == [calories |-> 0, protein |-> 0, carbs |-> 0, fat |-> 0]

\* the body of the loop over items, for one item
AddItem(totals, item) ==
  LET raw_name == Normalize(item.name)
      idx == FOOD_INDEX(raw_name)
  IN IF idx = NotInIndex
     THEN totals
     ELSE [calories |-> totals.calories + Regress(idx, item.quantity).cal,
           protein |-> totals.protein + Regress(idx, item.quantity).p,
           carbs |-> totals.carbs + Regress(idx, item.quantity).c,
           fat |-> totals.fat + Regress(idx, item.quantity).f]

RECURSIVE TotalsAfter(_, _)
TotalsAfter(items, n) ==
  IF n = 0 THEN ZeroTotals ELSE AddItem(TotalsAfter(items, n - 1), items[n])

\* predict_meal_nutrition(items), once the model is loaded
predict_meal_nutrition(items) == TotalsAfter(items, Len(items))

\* names as a caller writes them: catalog names in several spellings, and
\* names that are no catalog name after normalization
RawNames == {"idli", " Idli ", "DOSA", "aloo paratha", "pizza", "id li", ""}

Quantities == {1, 2}

MealItems == [name : RawNames, quantity : Quantities]

\* the lists of at most n items
RECURSIVE ItemLists(_)
ItemLists(n) ==
  IF n = 0 THEN {<<>>}
  ELSE ItemLists(n - 1) \cup
       {Append(l, i) : l \in {m \in ItemLists(n - 1) : Len(m) = n - 1}, i \in MealItems}

MealCalls == {[NoCalc EXCEPT !.fn = "predict_meal_nutrition", !.arg = l] : l \in ItemLists(MaxItems)}

PredictMeal ==
  /\ calc.fn = "predict_meal_nutrition"
  /\ ~calc.done
  /\ calc' = [calc EXCEPT !.done = TRUE, !.out = predict_meal_nutrition(calc.arg)]
  /\ UNCHANGED <<store, tables>>

\* an attribute that may be None: <<>> is None, <<v>> is the value v
\* Python's x or d: d when x is None or zero
Or(x, d) == IF x = <<>> \/ x[1] = 0 THEN d ELSE x[1]

\* Python's not x
Not(x) == x = <<>> \/ x[1] = 0

MaxScore == 100

\* a score equal to a threshold gets the label below it
MutBuildLabelStrict(organ_load_score) ==
  LET ol == Or(organ_load_score, 0)
  IN IF ol <= 40 THEN 0 ELSE IF ol <= 60 THEN 1 ELSE IF ol <= 80 THEN 2 ELSE 3

\* _build_label, the score in hundredths
build_label(organ_load_score) ==
  LET ol == Or(organ_load_score, 0)
  IN IF ol < 40 THEN 0 ELSE IF ol < 60 THEN 1 ELSE IF ol < 80 THEN 2 ELSE 3

Scores == {<<>>} \cup {<<v>> : v \in 0..MaxScore}

LabelCalls == {[NoCalc EXCEPT !.fn = "_build_label", !.arg = s] : s \in Scores}

BuildLabel ==
  /\ calc.fn = "_build_label"
  /\ ~calc.done
  /\ calc' = [calc EXCEPT !.done = TRUE, !.out = build_label(calc.arg)]
  /\ UNCHANGED <<store, tables>>

MaxClassId == 5

\* labels = {0: "no_consult", ...}
labels == <<"no_consult", "routine_consult", "specialist_consult", "emergency">>

\* a class id the table does not have gets the last label
MutLabelOrLast(pred) ==
  [raised |-> "", class_id |-> pred,
   label |-> IF pred \in 0..(Len(labels) - 1) THEN labels[pred + 1] ELSE labels[Len(labels)]]

\* return {"class_id": pred, "label": labels[pred]}: labels[pred] raises
\* KeyError for a key the dict does not have
LabelResult(pred) ==
  IF pred \in 0..(Len(labels) - 1)
  THEN [raised |-> "", class_id |-> pred, label |-> labels[pred + 1]]
  ELSE [raised |-> "KeyError", class_id |-> pred, label |-> ""]

ClassIds == (-1)..MaxClassId

ClassCalls == {[NoCalc EXCEPT !.fn = "predict_alert_for_twin", !.arg = c] : c \in ClassIds}

MapLabel ==
  /\ calc.fn = "predict_alert_for_twin"
  /\ ~calc.done
  /\ calc' = [calc EXCEPT !.done = TRUE, !.out = LabelResult(calc.arg)]
  /\ UNCHANGED <<store, tables>>

MaxLevel == 4

\* twin.gender.lower().startswith("m")
StartsWithM(gender) == Lower(gender) # "" /\ Char(Lower(gender), 1) = "m"

\* the factor of the if/elif chain over level, in thousandths
FactorOf(level) ==
  IF level = 0 THEN 1200
  ELSE IF level = 1 THEN 1375
  ELSE IF level = 2 THEN 1550
  ELSE 1725

\* _estimate_required_calories: lengths in cm, weights in kg, ages in years,
\* bmr in hundredths, the result in hundred-thousandths of a kcal
estimate_required_calories(twin) ==
  IF Not(twin.height_cm) \/ Not(twin.weight_kg) \/ Not(twin.age)
  THEN [raised |-> "", value |-> 2000 * 100000]
  ELSE IF twin.gender = <<>>
  THEN [raised |-> "AttributeError", value |-> 0]
  ELSE LET height == twin.height_cm[1]
           weight == twin.weight_kg[1]
           age == twin.age[1]
           bmr == IF StartsWithM(twin.gender[1])
                  THEN 1000 * weight + 625 * height - 500 * age + 500
                  ELSE 1000 * weight + 625 * height - 500 * age - 16100
           level == Or(twin.exercise_level, 1)
       IN [raised |-> "", value |-> bmr * FactorOf(level)]

Twins ==
  [height_cm : {<<>>, <<150>>, <<170>>}, weight_kg : {<<>>, <<50>>, <<70>>},
   age : {<<>>, <<0>>, <<30>>},
   gender : {<<>>, <<"male">>, <<"Male">>, <<"m">>, <<"female">>, <<"other">>},
   exercise_level : {<<>>} \cup {<<l>> : l \in 0..MaxLevel}]

CalorieCalls == {[NoCalc EXCEPT !.fn = "_estimate_required_calories", !.arg = t] : t \in Twins}

EstimateCalories ==
  /\ calc.fn = "_estimate_required_calories"
  /\ ~calc.done
  /\ calc' = [calc EXCEPT !.done = TRUE, !.out = estimate_required_calories(calc.arg)]
  /\ UNCHANGED <<store, tables>>

\* one call of a storage-free function, over every argument of the sets above
InitCalc ==
  /\ InitStore
  /\ NoTables
  /\ xgb
  /\ nTwins = 0
  /\ evals = CHOOSE e \in SampleEvals : TRUE
  /\ \/ calc \in MealCalls
     \/ calc \in LabelCalls
     \/ calc \in ClassCalls
     \/ calc \in CalorieCalls

NextCalc ==
  \/ PredictMeal
  \/ BuildLabel
  \/ MapLabel
  \/ EstimateCalories

SpecCalc == InitCalc /\ [][NextCalc]_vars

(***************************************************************************)
(* One call over a registry that already holds records.                    *)
(***************************************************************************)
MaxStored == 3

\* the record an earlier run j of family f left, j seconds before second 0
StoredRecord(f, j) ==
  IF f = "alert"
  THEN AlertRecord([key |-> BaseRoster[2], f1 |-> 70, acc |-> 60,
                    path |-> ArtifactPath("alert", BaseRoster[2], 0 - j),
                    run |-> [t |-> 0 - j, k |-> 2]], 0 - j)
  ELSE FoodRecord(ArtifactPath("food", "", 0 - j), [t |-> 0 - j, k |-> 1], 0 - j)

\* the documents of at most MaxStored records of family f, oldest first, with
\* every setting of the active fields (a document can be edited on storage)
StoredDocs(f) ==
  UNION { { [i \in 1..n |-> [StoredRecord(f, n + 1 - i) EXCEPT !.active = a[i]]] :
              a \in [1..n -> BOOLEAN] } : n \in 0..MaxStored }

\* the registry file of family f: not created yet, or one of the documents
StoredFiles(f) == {Absent} \cup {Doc(d) : d \in StoredDocs(f)}

PathsOf(models) == {models[i].path : i \in 1..Len(models)}

\* storage holds a registry document per family, or none yet, and the
\* artifact files of all its records or of none
InitStored ==
  /\ NoTables
  /\ file \in {[alert |-> a, food |-> b] : a \in StoredFiles("alert"), b \in StoredFiles("food")}
  /\ artifacts \in {{}, UNION {PathsOf(file[f].models) : f \in Family}}
  /\ now = 0
  /\ runs = 0
  /\ xgb \in BOOLEAN
  /\ nTwins = MinTwins
  /\ evals = CHOOSE e \in SampleEvals : TRUE
  /\ pc = [p \in Procs |-> "idle"]
  /\ op = [p \in Procs |-> "none"]
  /\ loc = [p \in Procs |-> LocInit]
  /\ snap = [p \in Procs |-> NoSnap]
  /\ res = [p \in Procs |-> NoRes]
  /\ written = {}
  /\ calc = NoCalc

\* one caller makes one call, of any operation or lookup
NextStored ==
  \/ \E o \in Ops \cup Getters : op["p1"] = "none" /\ Start("p1", o)
  \/ Ensure("p1")
  \/ OpenW("p1")
  \/ Dump("p1")
  \/ Gate("p1")
  \/ Train("p1")
  \/ Read("p1")
  \/ Exists("p1")
  \/ Exit("p1")
  \/ Load("p1")

SpecStored == InitStored /\ [][NextStored]_vars

(***************************************************************************)
(* The meal log and the daily calorie summary of nutrition_service.  Calls *)
(* run one at a time, each in a database session of its own: a call that   *)
(* raises commits nothing.  Energy in the tables is in hundred-thousandths *)
(* of a kcal, as _estimate_required_calories gives it.                     *)
(***************************************************************************)
MaxDay == 1
MaxMeals == 2

\* the profile with every attribute
FullProfile ==
  [height_cm |-> <<170>>, weight_kg |-> <<70>>, age |-> <<30>>, gender |-> <<"male">>,
   exercise_level |-> <<2>>]

\* the twin rows a call can find: every attribute present, age None, or
\* gender None
TwinProfiles ==
  {FullProfile, [FullProfile EXCEPT !.age = <<>>], [FullProfile EXCEPT !.gender = <<>>]}

\* the items of a request: no item, or a catalog item with a name outside
\* the catalog
MealInputs ==
  {<<>>,
   <<[name |-> " Idli ", quantity |-> 2], [name |-> "pizza", quantity |-> 1]>>}

\* nutrition["calories"], tenths of a kcal, in the unit of the tables
Energy(tenths) == tenths * 10000

\* db.query(DailyCalorieSummary).filter(twin_id == ..., date == ...).first():
\* the position of the first matching row, 0 for None
FirstDaily(rows, twin_id, day) ==
  LET matches == {i \in 1..Len(rows) : rows[i].twin_id = twin_id /\ rows[i].date = day}
  IN IF matches = {} THEN 0 ELSE CHOOSE i \in matches : \A j \in matches : i <= j

\* the call raises: the session ends without a commit, and the caller gets
\* the error and no row
Raise(fn, error) ==
  /\ reply' = [NoReply EXCEPT !.fn = fn, !.outcome = error]
  /\ UNCHANGED <<meal_logs, daily_calorie_summary>>

\* DailyCalorieSummary(twin_id=..., date=today, total_calories=..., ...)
NewDaily(twin_id, day, total, required, balance) ==
  [twin_id |-> twin_id, date |-> day, total_calories |-> total,
   required_calories |-> required, calorie_balance |-> balance]

\* the balance of the row is left as it was
MutUpdatedDailyStaleBalance(daily, calories) ==
  [daily EXCEPT !.total_calories = @ + calories]

\* daily.total_calories += nutrition["calories"]; the balance is recomputed
UpdatedDaily(daily, calories) ==
  [daily EXCEPT !.total_calories = @ + calories,
                !.calorie_balance = (daily.total_calories + calories)
                                      - daily.required_calories]

\* log_meal(db, twin_id, meal_type, items); predicts is whether
\* predict_meal_nutrition returns (it raises when the food model cannot be
\* trained or loaded)
log_meal(twin_id, items) ==
  /\ Len(meal_logs) < MaxMeals
  /\ \E predicts \in BOOLEAN, nutrition \in {predict_meal_nutrition(items)} :
       LET twin == twin_rows[twin_id]
           meal == [twin_id |-> twin_id, date |-> today, meal_type |-> "breakfast",
                    calories |-> Energy(nutrition.calories),
                    protein |-> nutrition.protein, carbs |-> nutrition.carbs,
                    fat |-> nutrition.fat]
           i == FirstDaily(daily_calorie_summary, twin_id, today)
           required == estimate_required_calories(twin[1])
       IN IF twin = <<>> THEN Raise("log_meal", "Twin not found")
          ELSE IF ~predicts THEN Raise("log_meal", "predict_error")
          ELSE IF i = 0 /\ required.raised # ""
          THEN Raise("log_meal", required.raised)
          ELSE /\ meal_logs' = Append(meal_logs, meal)
               /\ daily_calorie_summary' =
                    IF i = 0
                    THEN Append(daily_calorie_summary,
                                NewDaily(twin_id, today, meal.calories, required.value,
                                         meal.calories - required.value))
                    ELSE [daily_calorie_summary EXCEPT
                            ![i] = UpdatedDaily(@, meal.calories)]
               /\ reply' = [fn |-> "log_meal", twin_id |-> twin_id, date |-> today,
                            outcome |-> "ok",
                            daily |-> IF i = 0 THEN Len(daily_calorie_summary) + 1 ELSE i]
  /\ UNCHANGED <<calc, store, today, twin_rows>>

\* get_daily_summary(db, twin_id)
get_daily_summary(twin_id) ==
  /\ LET i == FirstDaily(daily_calorie_summary, twin_id, today)
         twin == twin_rows[twin_id]
         required == estimate_required_calories(twin[1])
     IN IF i # 0
        THEN /\ reply' = [fn |-> "get_daily_summary", twin_id |-> twin_id,
                          date |-> today, outcome |-> "ok", daily |-> i]
             /\ UNCHANGED <<meal_logs, daily_calorie_summary>>
        ELSE IF twin = <<>> THEN Raise("get_daily_summary", "Twin not found")
        ELSE IF required.raised # ""
        THEN Raise("get_daily_summary", required.raised)
        ELSE /\ daily_calorie_summary' =
                  Append(daily_calorie_summary,
                         NewDaily(twin_id, today, 0, required.value, -required.value))
             /\ reply' = [fn |-> "get_daily_summary", twin_id |-> twin_id,
                          date |-> today, outcome |-> "ok",
                          daily |-> Len(daily_calorie_summary) + 1]
             /\ UNCHANGED meal_logs
  /\ UNCHANGED <<calc, store, today, twin_rows>>

\* date.today() moves on to the next day
NextDay ==
  /\ today < MaxDay
  /\ today' = today + 1
  /\ UNCHANGED <<calc, store, twin_rows, meal_logs, daily_calorie_summary, reply>>

\* twin 1 is any of the profiles or has no row, twin 2 has every attribute;
\* no meal is logged yet
InitMeals ==
  /\ InitStore
  /\ xgb
  /\ nTwins = 0
  /\ evals = CHOOSE e \in SampleEvals : TRUE
  /\ calc = NoCalc
  /\ today = 0
  /\ twin_rows \in {[id \in TwinIds |-> IF id = 1 THEN t ELSE <<FullProfile>>] :
                     t \in {<<>>} \cup {<<u>> : u \in TwinProfiles}}
  /\ meal_logs = <<>>
  /\ daily_calorie_summary = <<>>
  /\ reply = NoReply

NextMeals ==
  \/ \E twin_id \in TwinIds : \E items \in MealInputs : log_meal(twin_id, items)
  \/ \E twin_id \in TwinIds : get_daily_summary(twin_id)
  \/ NextDay

SpecMeals == InitMeals /\ [][NextMeals]_vars

(***************************************************************************)
(* Properties.                                                             *)
(***************************************************************************)
\* call p has returned from operation o and nothing has run since
Returned(p, o) == pc[p] = "idle" /\ res[p].op = o

RetrainOf(f) == IF f = "alert" THEN "retrain_alert" ELSE "retrain_food"

\* the records of a and b agree in every field other than active
SameButActive(a, b) == [a EXCEPT !.active = FALSE] = [b EXCEPT !.active = FALSE]

HasRun(models, run) == \E i \in 1..Len(models) : models[i].mlflow_run_id = run

\* C1: with calls executed one at a time, after every successful retrain of a
\* family its registry has exactly one record with active = true, and that
\* record is the last one of the list, the record this retrain appended.
C1_SingleActiveIsLast ==
  \A p \in Procs : \A f \in Family :
    (Returned(p, RetrainOf(f)) /\ res[p].outcome = "ok") =>
      /\ file[f].st = "doc"
      /\ Len(Models(f)) >= 1
      /\ ActiveIdx(Models(f)) = {Len(Models(f))}
      /\ Models(f)[Len(Models(f))] = res[p].rec

\* a second successful retrain of one family has returned
C1_Witness ==
  \E p \in Procs : \E f \in Family :
    /\ Returned(p, RetrainOf(f))
    /\ res[p].outcome = "ok"
    /\ Len(Models(f)) = 2

\* C2: every registry document written under interleaved retrains holds at
\* most one active record, and one with no active record holds no record at
\* all: the state the race reaches after a completed retrain is the one with
\* zero active records (C2_Witness), and none with two is reachable.
C2_RaceLeavesZeroNeverTwo ==
  \A f \in Family :
    file[f].st = "doc" =>
      /\ Cardinality(ActiveIdx(Models(f))) <= 1
      /\ ActiveIdx(Models(f)) = {} => Models(f) = EmptyDoc

\* a retrain of f has returned successfully and the persisted registry
\* document of f has no active record
C2_Witness ==
  \E f \in Family :
    /\ \E w \in written : w.family = f
    /\ file[f].st = "doc"
    /\ ActiveIdx(Models(f)) = {}

\* C3: with calls executed one at a time, a successful retrain leaves its
\* registry one record longer than it found it, every earlier record at its
\* position and unchanged in every field other than active.
C3_AppendOnly ==
  \A p \in Procs : \A f \in Family :
    (Returned(p, RetrainOf(f)) /\ res[p].outcome = "ok") =>
      /\ Len(Models(f)) = Len(snap[p].models[f]) + 1
      /\ \A i \in 1..Len(snap[p].models[f]) :
           SameButActive(Models(f)[i], snap[p].models[f][i])

\* a successful retrain has returned that found an active record, which it
\* left in place with its flag cleared
C3_Witness ==
  \E p \in Procs : \E f \in Family :
    /\ Returned(p, RetrainOf(f))
    /\ res[p].outcome = "ok"
    /\ ActiveIdx(snap[p].models[f]) # {}
    /\ ~Models(f)[1].active

\* C4: the record of every retrain that returned successfully is in the
\* persisted registry document of its family, also when two retrains of the
\* family run concurrently.
C4_NoRecordLost ==
  \A w \in written :
    file[w.family].st = "doc" => HasRun(Models(w.family), w.run)

\* C5: retrain_alert_model called with fewer than 10 stored twins ends in the
\* data-insufficient error, starts no training and leaves the alert registry as
\* it was; called with 10 or more it does not end in that error and goes on to
\* a training run.
C5_DataGate ==
  \A p \in Procs :
    Returned(p, "retrain_alert") =>
      /\ snap[p].twins < 10 =>
           /\ res[p].outcome = "data_insufficient"
           /\ res[p].trained = 0
           /\ Models("alert") = snap[p].models["alert"]
      /\ snap[p].twins >= 10 =>
           /\ res[p].outcome # "data_insufficient"
           /\ res[p].trained = 1

\* a retrain with 9 twins was refused over a registry that has an active record
C5_Witness ==
  \E p \in Procs :
    /\ Returned(p, "retrain_alert")
    /\ snap[p].twins = 9
    /\ res[p].outcome = "data_insufficient"
    /\ ActiveIdx(Models("alert")) # {}

\* the candidate first in roster order among those of the highest macro-F1
FirstBest(roster, ev) ==
  CHOOSE i \in 1..Len(roster) :
    /\ \A j \in 1..Len(roster) : ev[j].f1 <= ev[i].f1
    /\ \A j \in 1..(i - 1) : ev[j].f1 < ev[i].f1

\* C6: for every assignment of macro-F1 scores, the record a successful
\* retrain_alert_model appends is of the candidate with the highest macro-F1,
\* the first in roster order among several of that score; a candidate is
\* always selected.
C6_SelectsFirstBest ==
  \A p \in Procs :
    (Returned(p, "retrain_alert") /\ res[p].outcome = "ok") =>
      /\ res[p].rec.model_type \in {Roster(xgb)[i] : i \in 1..Len(Roster(xgb))}
      /\ res[p].rec.model_type = Roster(xgb)[FirstBest(Roster(xgb), evals)]
      /\ res[p].rec.f1_macro = evals[FirstBest(Roster(xgb), evals)].f1

\* the scores 70, 85, 85 of the first three candidates, none higher: the
\* second candidate is selected
C6_Witness ==
  /\ Returned("p1", "retrain_alert")
  /\ res["p1"].outcome = "ok"
  /\ evals[1].f1 = 70 /\ evals[2].f1 = 85 /\ evals[3].f1 = 85
  /\ res["p1"].rec.model_type = "rf"

\* C7: predict_alert_for_twin changes no record of either registry and starts
\* no training run; over an alert registry with no active record it returns
\* the no-active-model result.
C7_AlertPredictReadOnly ==
  \A p \in Procs :
    Returned(p, "predict_alert") =>
      /\ \A f \in Family : Models(f) = snap[p].models[f]
      /\ res[p].trained = 0
      /\ ActiveIdx(snap[p].models["alert"]) = {} => res[p].outcome = "no_active_model"

\* alert prediction returned the no-active-model result while the food
\* registry holds records
C7_Witness ==
  \E p \in Procs :
    /\ Returned(p, "predict_alert")
    /\ res[p].outcome = "no_active_model"
    /\ Models("food") # EmptyDoc

\* C8: predict_meal_nutrition over a food registry with no active record runs
\* exactly one training run, and unless that run fails the registry gains
\* exactly one record, active and last; over a registry whose active record
\* has its artifact file it runs no training and leaves the registry as it was.
C8_BootstrapOnce ==
  \A p \in Procs :
    Returned(p, "predict_food") =>
      /\ ActiveIdx(snap[p].models["food"]) = {} =>
           /\ res[p].trained = 1
           /\ res[p].outcome \notin {"train_error", "log_error"} =>
                /\ Len(Models("food")) = Len(snap[p].models["food"]) + 1
                /\ ActiveIdx(Models("food")) = {Len(Models("food"))}
      /\ ( /\ ActiveIdx(snap[p].models["food"]) # {}
           /\ ActivePath(snap[p].models["food"]) \in snap[p].artifacts ) =>
           /\ res[p].trained = 0
           /\ Models("food") = snap[p].models["food"]

\* a food prediction returned without training, from the one record an
\* earlier bootstrap or retrain wrote
C8_Witness ==
  \E p \in Procs :
    /\ Returned(p, "predict_food")
    /\ res[p].outcome = "ok"
    /\ res[p].trained = 0
    /\ Len(Models("food")) = 1

\* C9: predict_meal_nutrition over a food registry whose active record has no
\* artifact file ends in the artifact failure and leaves the food registry as
\* it was (a call that ends in an error of a training run is left aside: a
\* call that aborts on the missing file starts none).
C9_FoodMissingArtifactFails ==
  \A p \in Procs :
    ( /\ Returned(p, "predict_food")
      /\ ActiveIdx(snap[p].models["food"]) # {}
      /\ ActivePath(snap[p].models["food"]) \notin snap[p].artifacts
      /\ res[p].outcome \notin {"train_error", "log_error", "tracker_error"} ) =>
      /\ res[p].outcome = "artifact_missing"
      /\ Models("food") = snap[p].models["food"]

\* C10: predict_alert_for_twin over an alert registry whose active record has
\* no artifact file ends in the artifact failure, not in the no-active-model
\* result and not in a prediction, and leaves the alert registry as it was.
C10_AlertMissingArtifactFails ==
  \A p \in Procs :
    ( /\ Returned(p, "predict_alert")
      /\ ActiveIdx(snap[p].models["alert"]) # {}
      /\ ActivePath(snap[p].models["alert"]) \notin snap[p].artifacts ) =>
      /\ res[p].outcome = "artifact_missing"
      /\ Models("alert") = snap[p].models["alert"]

\* alert prediction failed on the missing artifact of the active record
C10_Witness ==
  \E p \in Procs :
    /\ Returned(p, "predict_alert")
    /\ ActiveIdx(snap[p].models["alert"]) # {}
    /\ ActivePath(snap[p].models["alert"]) \notin snap[p].artifacts
    /\ res[p].outcome = "artifact_missing"

\* call q is inside _save_meta / _save_food_meta of a retrain: the file is
\* opened for writing and the document is not yet written
Saving(q) == pc[q] = "dump" /\ loc[q].ret \in {"done", "exit"}

\* C11: a lookup that reads the registry document while a retrain is saving
\* it reads a complete document: its json.load returns a document, never the
\* empty or partly written file.
C11_ReaderSeesWholeDocument ==
  [][\A p \in Procs :
       ( /\ op[p] \in Getters
         /\ pc[p] = "read"
         /\ pc'[p] = "idle"
         /\ \E q \in Procs : Saving(q) /\ OpFamily(op[q]) = OpFamily(op[p]) ) =>
         res'[p].outcome = "ok"]_vars

\* the name is no FoodCatalog key after normalization
UnknownName(name) == ~\E i \in 1..Len(FOOD_DB) : FOOD_DB[i].name = Normalize(name)

\* the list l with item x inserted after its first k items
InsertAt(l, k, x) == SubSeq(l, 1, k) \o <<x>> \o SubSeq(l, k + 1, Len(l))

\* C12: for every list of items, predict_meal_nutrition returns for the list
\* with an item of an unknown name inserted at any place the four totals it
\* returns for the list itself, and all four totals are 0 when every item of
\* the list is unknown or the list is empty.
C12_UnknownItemTolerated ==
  (calc.fn = "predict_meal_nutrition" /\ calc.done) =>
    /\ \A u \in {i \in MealItems : UnknownName(i.name)} : \A k \in 0..Len(calc.arg) :
         predict_meal_nutrition(InsertAt(calc.arg, k, u)) = calc.out
    /\ (\A i \in 1..Len(calc.arg) : UnknownName(calc.arg[i].name)) =>
         calc.out = ZeroTotals

\* two idli under another spelling and an item that is no catalog name once
\* normalized: the totals are those of the two idli
C12_Witness ==
  /\ calc.fn = "predict_meal_nutrition"
  /\ calc.done
  /\ calc.arg = <<[name |-> " Idli ", quantity |-> 2], [name |-> "id li", quantity |-> 1]>>
  /\ calc.out = [calories |-> 1400, protein |-> 40, carbs |-> 240, fat |-> 10]

\* the score a label is built from, in hundredths: a missing score is 0.0
ScoreOf(organ_load_score) ==
  IF organ_load_score = <<>> THEN 0 ELSE organ_load_score[1]

\* C13 as claimed: the label is the number of the thresholds 0.4, 0.6, 0.8
\* that the organ load score exceeds, for every score and a missing score.
C13_LabelCountsThresholdsExceeded ==
  (calc.fn = "_build_label" /\ calc.done) =>
    calc.out = Cardinality({t \in {40, 60, 80} : ScoreOf(calc.arg) > t})

\* C13 as amended: the label is the number of the thresholds 0.4, 0.6, 0.8
\* that the organ load score reaches or exceeds, a missing score counting as
\* 0.0.
C13_LabelCountsThresholdsReached ==
  (calc.fn = "_build_label" /\ calc.done) =>
    calc.out = Cardinality({t \in {40, 60, 80} : ScoreOf(calc.arg) >= t})

\* the label of a score of exactly 0.6 is 2
C13_Witness ==
  /\ calc.fn = "_build_label"
  /\ calc.done
  /\ calc.arg = <<60>>
  /\ calc.out = 2

\* C14: predict_alert_for_twin returns the labels no_consult,
\* routine_consult, specialist_consult, emergency for the predicted class ids
\* 0, 1, 2, 3, and for every other class id it returns no label: the call
\* raises.
C14_LabelTable ==
  (calc.fn = "predict_alert_for_twin" /\ calc.done) =>
    /\ calc.arg = 0 => calc.out = [raised |-> "", class_id |-> 0, label |-> "no_consult"]
    /\ calc.arg = 1 => calc.out = [raised |-> "", class_id |-> 1, label |-> "routine_consult"]
    /\ calc.arg = 2 => calc.out = [raised |-> "", class_id |-> 2, label |-> "specialist_consult"]
    /\ calc.arg = 3 => calc.out = [raised |-> "", class_id |-> 3, label |-> "emergency"]
    /\ calc.arg \notin {0, 1, 2, 3} => (calc.out.raised # "" /\ calc.out.label = "")

\* the class id 4 ends in an error
C14_Witness ==
  /\ calc.fn = "predict_alert_for_twin"
  /\ calc.done
  /\ calc.arg = 4
  /\ calc.out.raised = "KeyError"

\* C15: in every reachable state the records of one registry have pairwise
\* distinct name and pairwise distinct path, also the records of two training
\* runs of the family that fall into the same UTC second.
C15_DistinctArtifactNames ==
  \A f \in Family :
    file[f].st = "doc" =>
      \A i, j \in 1..Len(Models(f)) :
        i # j => /\ Models(f)[i].name # Models(f)[j].name
                 /\ Models(f)[i].path # Models(f)[j].path

\* C16: an alert training run in which a call to the experiment tracker fails
\* still appends the record of its winner to the alert registry and marks it
\* active.
C16_TrackerFailureKeepsWinner ==
  \A p \in Procs :
    (Returned(p, "retrain_alert") /\ res[p].outcome = "log_error") =>
      /\ file["alert"].st = "doc"
      /\ Len(Models("alert")) = Len(snap[p].models["alert"]) + 1
      /\ ActiveIdx(Models("alert")) = {Len(Models("alert"))}
      /\ Models("alert")[Len(Models("alert"))].model_type =
           Roster(xgb)[FirstBest(Roster(xgb), evals)]

\* the active record of models that is last in insertion order
LastActive(models) ==
  CHOOSE i \in ActiveIdx(models) : \A j \in ActiveIdx(models) : j <= i

\* C17: over every registry content, also one with several active records,
\* get_active_model_path and get_active_food_model_path return the path of
\* the active record that is last in insertion order and get_active_model_info
\* returns that record; they return None exactly when no record is active, and
\* no lookup fails.
C17_LookupReturnsLastActive ==
  \A p \in Procs :
    (pc[p] = "idle" /\ res[p].op \in Getters) =>
      LET models == snap[p].models[OpFamily(res[p].op)]
      IN /\ res[p].outcome = "ok"
         /\ res[p].op \in {"get_active_model_path", "get_active_food_model_path"} =>
              /\ ActiveIdx(models) # {} => res[p].value = models[LastActive(models)].path
              /\ ActiveIdx(models) = {} <=> res[p].value = NoPath
         /\ res[p].op = "get_active_model_info" =>
              /\ ActiveIdx(models) # {} => res[p].value = models[LastActive(models)]
              /\ ActiveIdx(models) = {} <=> res[p].value = NoRec
         /\ res[p].op \in {"get_registered_models", "get_registered_food_models"} =>
              res[p].value = models

\* get_active_model_info over three records of which the first two are
\* active returned the second
C17_Witness ==
  /\ Returned("p1", "get_active_model_info")
  /\ Len(snap["p1"].models["alert"]) = 3
  /\ ActiveIdx(snap["p1"].models["alert"]) = {1, 2}
  /\ res["p1"].value = snap["p1"].models["alert"][2]

\* C18: whatever operation runs (a retrain, a prediction, a lookup, of either
\* family), a record of a registry document with active = true either was
\* active in its place before the operation started, or is the record a
\* retrain of that family appended in its promotion, at the end of the list:
\* no operation sets active = true on a record that existed.
C18_OnlyPromotionActivates ==
  \A p \in Procs : \A f \in Family :
    (op[p] # "none" /\ file[f].st = "doc") =>
      \A i \in 1..Len(Models(f)) :
        Models(f)[i].active =>
          \/ /\ i <= Len(snap[p].models[f])
             /\ snap[p].models[f][i] = Models(f)[i]
          \/ /\ i = Len(snap[p].models[f]) + 1
             /\ i = Len(Models(f))
             /\ op[p] \in {RetrainOf(f), "predict_food"}
             /\ OpFamily(op[p]) = f
             /\ runs >= 1
             /\ Models(f)[i].mlflow_run_id.t = runs

\* a retrain returned over a registry whose first record was inactive and
\* whose second was active: the first is still inactive, the second is
\* cleared, the appended third is active
C18_Witness ==
  \E f \in Family :
    /\ Returned("p1", RetrainOf(f))
    /\ res["p1"].outcome = "ok"
    /\ Len(snap["p1"].models[f]) = 2
    /\ ~snap["p1"].models[f][1].active
    /\ snap["p1"].models[f][2].active
    /\ ActiveIdx(Models(f)) = {3}

\* call p takes a step
Steps(p) == pc'[p] # pc[p] \/ loc'[p] # loc[p]

\* C19: in every interleaving, no step of retrain_food_model or
\* predict_meal_nutrition changes the alert registry document, and no step of
\* retrain_alert_model or predict_alert_for_twin changes the food registry
\* document.
C19_FamiliesIndependent ==
  [][\A p \in Procs :
       /\ (Steps(p) /\ op[p] \in {"retrain_food", "predict_food"}) =>
            file'["alert"] = file["alert"]
       /\ (Steps(p) /\ op[p] \in {"retrain_alert", "predict_alert"}) =>
            file'["food"] = file["food"]]_vars

\* a food retrain and an alert retrain that overlapped have both returned,
\* and each registry holds the one record of its family
C19_Witness ==
  \E p, q \in Procs :
    /\ Returned(p, "retrain_food") /\ res[p].outcome = "ok"
    /\ Returned(q, "retrain_alert") /\ res[q].outcome = "ok"
    /\ snap[p].models["alert"] = EmptyDoc
    /\ snap[q].models["food"] = EmptyDoc
    /\ Models("food") = <<res[p].rec>>
    /\ Models("alert") = <<res[q].rec>>

\* an attribute that is present, with a value other than zero
Present(x) == x # <<>> /\ x[1] # 0

\* the activity factor of exercise level 0, 1, 2, 3, in thousandths
ActivityFactor(level) == <<1200, 1375, 1550, 1725>>[level + 1]

\* C20: for a twin with height, weight and age present, a gender starting
\* with "m" and an exercise level 0 to 3, _estimate_required_calories returns
\* (10 * weight + 6.25 * height - 5 * age + 5) times the activity factor of the
\* exercise level.
C20_RequiredCalories ==
  ( /\ calc.fn = "_estimate_required_calories"
    /\ calc.done
    /\ Present(calc.arg.height_cm) /\ Present(calc.arg.weight_kg)
    /\ Present(calc.arg.age)
    /\ calc.arg.gender \in {<<"male">>, <<"m">>}
    /\ calc.arg.exercise_level \in {<<l>> : l \in 0..3} ) =>
      calc.out =
        [raised |-> "",
         value |-> (1000 * calc.arg.weight_kg[1] + 625 * calc.arg.height_cm[1]
                      - 500 * calc.arg.age[1] + 500)
                   * ActivityFactor(calc.arg.exercise_level[1])]

\* C21: when two predict_meal_nutrition calls that both found the food
\* registry without an active record have returned their predictions, exactly
\* one training run has happened and the food registry holds exactly one
\* record.
C21_ConcurrentBootstrapOnce ==
  \A p, q \in Procs :
    ( /\ p # q
      /\ Returned(p, "predict_food") /\ res[p].outcome = "ok"
      /\ Returned(q, "predict_food") /\ res[q].outcome = "ok"
      /\ ActiveIdx(snap[p].models["food"]) = {}
      /\ ActiveIdx(snap[q].models["food"]) = {} ) =>
      /\ runs = 1
      /\ file["food"].st = "doc"
      /\ Len(Models("food")) = 1

\* C22: for either family, after a retrain invocation that ended in an error
\* (data gate, fitting, artifact write, or a tracker call failing at any
\* point, the closing of the tracker run included) the registry of that
\* family holds the records it held before the invocation.
C22_FailedRetrainLeavesRegistry ==
  \A p \in Procs : \A f \in Family :
    (Returned(p, RetrainOf(f)) /\ res[p].outcome # "ok") =>
      Models(f) = snap[p].models[f]

\* C23: after a successful retrain_alert_model executed alone, the record
\* appended as the active one and the returned summary describe the same
\* candidate, the one selected by macro-F1: model type, accuracy, macro-F1,
\* artifact path and run id are that candidate's (the accuracy is the
\* winner's also when another candidate has a higher accuracy), and
\* get_active_model_path() equals the summary's model_path.
C23_RecordAndSummaryOfWinner ==
  \A p \in Procs :
    (Returned(p, "retrain_alert") /\ res[p].outcome = "ok") =>
      LET roster == Roster(xgb)
          w == FirstBest(roster, evals)
          models == Models("alert")
          rec == models[Len(models)]
          summary == res[p].value
      IN /\ file["alert"].st = "doc"
         /\ Len(models) = Len(snap[p].models["alert"]) + 1
         /\ ActiveIdx(models) = {Len(models)}
         /\ rec.model_type = roster[w] /\ summary.best_model = roster[w]
         /\ rec.accuracy = evals[w].acc /\ summary.accuracy = evals[w].acc
         /\ rec.f1_macro = evals[w].f1 /\ summary.f1_macro = evals[w].f1
         /\ rec.path.name.key = roster[w] /\ summary.model_path = rec.path
         /\ rec.name = rec.path.name
         /\ rec.mlflow_run_id.k = w /\ summary.mlflow_run_id = rec.mlflow_run_id
         /\ get_active_model_path(models) = summary.model_path

\* a successful run whose winner by macro-F1 has a lower accuracy than another
\* candidate of the roster
C23_Witness ==
  /\ Returned("p1", "retrain_alert")
  /\ res["p1"].outcome = "ok"
  /\ \E j \in 1..Len(Roster(xgb)) :
       evals[j].acc > evals[FirstBest(Roster(xgb), evals)].acc
  /\ res["p1"].value.accuracy = evals[FirstBest(Roster(xgb), evals)].acc

\* C24: for a twin with height, weight and age present, the activity factor
\* _estimate_required_calories multiplies the basal rate by follows the
\* exercise level: 1.2 for level 0, 1.375 for level 1, 1.55 for level 2,
\* 1.725 for level 3.
C24_FactorFollowsLevel ==
  ( /\ calc.fn = "_estimate_required_calories"
    /\ calc.done
    /\ Present(calc.arg.height_cm) /\ Present(calc.arg.weight_kg)
    /\ Present(calc.arg.age)
    /\ calc.arg.gender # <<>>
    /\ calc.arg.exercise_level \in {<<l>> : l \in 0..3} ) =>
      LET base == 1000 * calc.arg.weight_kg[1] + 625 * calc.arg.height_cm[1]
                    - 500 * calc.arg.age[1]
          bmr == IF StartsWithM(calc.arg.gender[1]) THEN base + 500 ELSE base - 16100
      IN /\ calc.out.raised = ""
         /\ calc.out.value = bmr * ActivityFactor(calc.arg.exercise_level[1])

\* the positions of the DailyCalorieSummary rows of twin twin_id and day
DailyOf(rows, twin_id, day) ==
  {i \in 1..Len(rows) : rows[i].twin_id = twin_id /\ rows[i].date = day}

\* the sum of the calories of the first n meals that are of twin_id and day
RECURSIVE CaloriesLogged(_, _, _, _)
CaloriesLogged(meals, n, twin_id, day) ==
  IF n = 0 THEN 0
  ELSE CaloriesLogged(meals, n - 1, twin_id, day)
         + (IF meals[n].twin_id = twin_id /\ meals[n].date = day
            THEN meals[n].calories ELSE 0)

\* C25: with log_meal and get_daily_summary executed one at a time, every
\* step leaves at most one DailyCalorieSummary row per twin and day, exactly
\* one for a twin and day with a logged meal or a call that has just
\* returned; the row's total_calories is the sum of the calories of the meals
\* logged for that twin and day and its calorie_balance is total_calories -
\* required_calories; a row keeps its required_calories, and a new row has
\* the value _estimate_required_calories gives for its twin.
C25_OneDailyRowPerTwinAndDay ==
  [][ /\ \A twin_id \in TwinIds : \A day \in 0..MaxDay :
           LET rows == DailyOf(daily_calorie_summary', twin_id, day)
               logged == CaloriesLogged(meal_logs', Len(meal_logs'), twin_id, day)
           IN /\ Cardinality(rows) <= 1
              /\ ( \/ \E n \in 1..Len(meal_logs') :
                         meal_logs'[n].twin_id = twin_id /\ meal_logs'[n].date = day
                   \/ /\ reply'.outcome = "ok"
                      /\ reply'.twin_id = twin_id /\ reply'.date = day ) =>
                   Cardinality(rows) = 1
              /\ \A i \in rows :
                   /\ daily_calorie_summary'[i].total_calories = logged
                   /\ daily_calorie_summary'[i].calorie_balance =
                        logged - daily_calorie_summary'[i].required_calories
      /\ Len(daily_calorie_summary') >= Len(daily_calorie_summary)
      /\ \A i \in 1..Len(daily_calorie_summary') :
           IF i <= Len(daily_calorie_summary)
           THEN /\ daily_calorie_summary'[i].twin_id = daily_calorie_summary[i].twin_id
                /\ daily_calorie_summary'[i].date = daily_calorie_summary[i].date
                /\ daily_calorie_summary'[i].required_calories =
                     daily_calorie_summary[i].required_calories
           ELSE daily_calorie_summary'[i].required_calories =
                  estimate_required_calories(
                    twin_rows[daily_calorie_summary'[i].twin_id][1]).value
      /\ reply'.outcome = "ok" =>
           reply'.daily = FirstDaily(daily_calorie_summary', reply'.twin_id, reply'.date)
    ]_vars

\* get_daily_summary has returned the row of a twin and day that it or
\* log_meal created and that two logged meals with calories have updated
C25_Witness ==
  /\ reply.fn = "get_daily_summary"
  /\ reply.outcome = "ok"
  /\ daily_calorie_summary[reply.daily].total_calories > 0
  /\ Cardinality({n \in 1..Len(meal_logs) :
                    /\ meal_logs[n].twin_id = reply.twin_id
                    /\ meal_logs[n].date = reply.date
                    /\ meal_logs[n].calories > 0}) >= 2
  /\ daily_calorie_summary[reply.daily].required_calories # 2000 * 100000

====
